---- MODULE Spec2Model ----
(***************************************************************************)
(* Model of src/perfdata.go: ParsePerfData, PerformanceData.Validate and   *)
(* PerformanceData.String, with the helpers they call.                     *)
(*                                                                         *)
(* A Go string is a sequence of one-character strings.  An error is the    *)
(* chain of its wrapping layers, outermost first; each layer is the pair   *)
(* <<format, args>> of an fmt.Errorf call, a sentinel is a chain of one    *)
(* layer, and nil is the empty chain.                                      *)
(***************************************************************************)
EXTENDS Integers, Sequences, FiniteSets, TLC

\* ------------------------------------------------------------ constants

perfDataMinSemicolonSeparatedFields == 1

perfDataMaxSemicolonSeparatedFields == 5

DigitChars == <<"0", "1", "2", "3", "4", "5", "6", "7", "8", "9">>

Digits == {DigitChars[i] : i \in 1..10}

\* the character class [-0-9.] of perfDataValueFieldRegex,
\* perfDataMinMaxFieldsRegex and the Value group of
\* perfDataValueAndUoMFieldsRegex
NumericClass == Digits \cup {"-", "."}

\* the character class [0-9~@:] of perfDataThresholdRangeSyntaxRegex
ThresholdClass == Digits \cup {"~", "@", ":"}

perfDataLabelFieldDisallowedCharacters == {"=", "'"}

perfDataUoMFieldDisallowedCharacters == Digits \cup {";", "'", "\""}

\* the complement of the UoM group's class [^\d;'"]
UoMGroupExcluded == Digits \cup {";", "'", "\""}

\* unicode.IsSpace, restricted to the ASCII range
WhiteSpace == {" ", "\t", "\n", "\r"}

\* ------------------------------------------------------------ errors

Nil == <<>>

ErrInvalidPerformanceDataFormat == << <<"ErrInvalidPerformanceDataFormat", <<>> >> >>

ErrPerformanceDataMissingLabel == << <<"ErrPerformanceDataMissingLabel", <<>> >> >>

ErrPerformanceDataMissingValue == << <<"ErrPerformanceDataMissingValue", <<>> >> >>

\* fmt.Errorf(format + ": %w", args..., err)
Errorf(format, args, err) == << <<format, args>> >> \o err

\* errors.Is(err, target) for a sentinel target
Is(err, target) ==
    \E i \in DOMAIN err : SubSeq(err, i, Len(err)) = target

RECURSIVE Itoa(_)
\* the %d verb
Itoa(n) ==
    IF n < 10 THEN <<DigitChars[n + 1]>>
    ELSE Itoa(n \div 10) \o <<DigitChars[(n % 10) + 1]>>

RECURSIVE Escape(_)
Escape(s) ==
    IF s = <<>> THEN <<>>
    ELSE (IF Head(s) \in {"\"", "\\"} THEN <<"\\", Head(s)>> ELSE <<Head(s)>>)
         \o Escape(Tail(s))

\* the %q verb
Quote(s) == <<"\"">> \o Escape(s) \o <<"\"">>

\* ------------------------------------------------------------ strings

RECURSIVE TrimLeft(_, _)
TrimLeft(s, cutset) ==
    IF s # <<>> /\ Head(s) \in cutset THEN TrimLeft(Tail(s), cutset) ELSE s

RECURSIVE TrimRight(_, _)
TrimRight(s, cutset) ==
    IF s # <<>> /\ s[Len(s)] \in cutset
    THEN TrimRight(SubSeq(s, 1, Len(s) - 1), cutset)
    ELSE s

\* strings.Trim(s, cutset)
Trim(s, cutset) == TrimRight(TrimLeft(s, cutset), cutset)

\* strings.TrimSpace(s)
TrimSpace(s) == Trim(s, WhiteSpace)

\* strings.ContainsAny(s, chars)
ContainsAny(s, chars) == \E i \in DOMAIN s : s[i] \in chars

RECURSIVE FieldsLoop(_, _, _, _)
FieldsLoop(s, i, cur, acc) ==
    IF i > Len(s) THEN (IF cur = <<>> THEN acc ELSE Append(acc, cur))
    ELSE IF s[i] \in WhiteSpace
         THEN FieldsLoop(s, i + 1, <<>>, IF cur = <<>> THEN acc ELSE Append(acc, cur))
         ELSE FieldsLoop(s, i + 1, Append(cur, s[i]), acc)

\* strings.Fields(s)
Fields(s) == FieldsLoop(s, 1, <<>>, <<>>)

RECURSIVE SplitLoop(_, _, _, _, _)
SplitLoop(s, sep, i, cur, acc) ==
    IF i > Len(s) THEN Append(acc, cur)
    ELSE IF s[i] = sep
         THEN SplitLoop(s, sep, i + 1, <<>>, Append(acc, cur))
         ELSE SplitLoop(s, sep, i + 1, Append(cur, s[i]), acc)

\* strings.Split(s, sep) for a one-character separator
Split(s, sep) == SplitLoop(s, sep, 1, <<>>, <<>>)

\* strings.SplitN(s, sep, 2) for a one-character separator
SplitN2(s, sep) ==
    IF \E i \in DOMAIN s : s[i] = sep
    THEN LET i == CHOOSE j \in DOMAIN s :
                      s[j] = sep /\ \A k \in 1..(j - 1) : s[k] # sep
         IN  <<SubSeq(s, 1, i - 1), SubSeq(s, i + 1, Len(s))>>
    ELSE <<s>>

RECURSIVE RunEnd(_, _, _)
\* the index after the longest run of characters of class that starts at i
RunEnd(s, i, class) ==
    IF i <= Len(s) /\ s[i] \in class THEN RunEnd(s, i + 1, class) ELSE i

RECURSIVE RunEndNot(_, _, _)
\* the index after the longest run of characters outside excluded from i
RunEndNot(s, i, excluded) ==
    IF i <= Len(s) /\ s[i] \notin excluded THEN RunEndNot(s, i + 1, excluded) ELSE i

\* regexp.MustCompile(perfDataValueAndUoMFieldsRegex).FindStringSubmatch(input):
\* the leftmost match of (?P<Value>[-0-9.]+)(?P<UoM>[^\d;'"]*)?, both groups
\* greedy; <<>> when nothing matches, else <<whole, Value, UoM>>.
FindValueAndUoMSubmatch(input) ==
    IF ~ContainsAny(input, NumericClass) THEN <<>>
    ELSE LET start == CHOOSE j \in DOMAIN input :
                          /\ input[j] \in NumericClass
                          /\ \A k \in 1..(j - 1) : input[k] \notin NumericClass
             valEnd == RunEnd(input, start, NumericClass)
             uomEnd == RunEndNot(input, valEnd, UoMGroupExcluded)
         IN  << SubSeq(input, start, uomEnd - 1),
                SubSeq(input, start, valEnd - 1),
                SubSeq(input, valEnd, uomEnd - 1) >>

\* ------------------------------------------------------------ records

PerformanceData(label, value, uom, warn, crit, min, max) ==
    [Label |-> label, Value |-> value, UnitOfMeasurement |-> uom,
     Warn |-> warn, Crit |-> crit, Min |-> min, Max |-> max]

\* PerformanceData{}
ZeroPerformanceData == PerformanceData(<<>>, <<>>, <<>>, <<>>, <<>>, <<>>, <<>>)

\* ------------------------------------------------------------ validators

\* mutant: the label rule without its non-empty test
validatePerfDataLabelFieldAllowEmpty(input0) ==
    LET input == TrimSpace(input0) IN
    IF ~ContainsAny(input, perfDataLabelFieldDisallowedCharacters)
    THEN Nil
    ELSE Errorf("field Label fails validation: %w", <<>>,
            Errorf("input string %q contains disallowed character from set %q: %w",
                   <<Quote(input), Quote(<<"=", "'">>)>>,
                   ErrInvalidPerformanceDataFormat))

validatePerfDataLabelField(input0) ==
    LET input == TrimSpace(input0) IN
    IF input # <<>> /\ ~ContainsAny(input, perfDataLabelFieldDisallowedCharacters)
    THEN Nil
    ELSE Errorf("field Label fails validation: %w", <<>>,
            Errorf("input string %q contains disallowed character from set %q: %w",
                   <<Quote(input), Quote(<<"=", "'">>)>>,
                   ErrInvalidPerformanceDataFormat))

\* perfDataValueFieldRegex, [-0-9.]+|U, is searched for, not anchored
validatePerfDataValueField(input0) ==
    LET input == TrimSpace(input0) IN
    IF ContainsAny(input, NumericClass) \/ ContainsAny(input, {"U"})
    THEN Nil
    ELSE Errorf("field Value fails validation: %w", <<>>,
                ErrInvalidPerformanceDataFormat)

validatePerfDataUoMField(input0) ==
    LET input == TrimSpace(input0) IN
    IF input = <<>> THEN Nil
    ELSE IF ~ContainsAny(input, perfDataUoMFieldDisallowedCharacters) THEN Nil
    ELSE Errorf("field UnitOfMeasurement fails validation: %w", <<>>,
            Errorf("input string %q contains disallowed character from set %q: %w",
                   <<Quote(input),
                     Quote(<<"0", "1", "2", "3", "4", "5", "6", "7", "8", "9",
                             ";", "'", "\"">>)>>,
                   ErrInvalidPerformanceDataFormat))

validatePerfDataWarnField(input0) ==
    LET input == TrimSpace(input0) IN
    IF input = <<>> THEN Nil
    ELSE IF ContainsAny(input, ThresholdClass) THEN Nil
    ELSE Errorf("field Warn fails validation: %w", <<>>,
                ErrInvalidPerformanceDataFormat)

validatePerfDataCritField(input0) ==
    LET input == TrimSpace(input0) IN
    IF input = <<>> THEN Nil
    ELSE IF ContainsAny(input, ThresholdClass) THEN Nil
    ELSE Errorf("field Crit fails validation: %w", <<>>,
                ErrInvalidPerformanceDataFormat)

\* mutant: the Min rule with the Warn/Crit rule's character class
validatePerfDataMinFieldThresholdClass(input0) ==
    LET input == TrimSpace(input0) IN
    IF input = <<>> THEN Nil
    ELSE IF ContainsAny(input, ThresholdClass) THEN Nil
    ELSE Errorf("field Min fails validation: %w", <<>>,
                ErrInvalidPerformanceDataFormat)

validatePerfDataMinField(input0) ==
    LET input == TrimSpace(input0) IN
    IF input = <<>> THEN Nil
    ELSE IF ContainsAny(input, NumericClass) THEN Nil
    ELSE Errorf("field Min fails validation: %w", <<>>,
                ErrInvalidPerformanceDataFormat)

\* mutant: the Max rule's error without the %w of the root error
validatePerfDataMaxFieldNoWrap(input0) ==
    LET input == TrimSpace(input0) IN
    IF input = <<>> THEN Nil
    ELSE IF ContainsAny(input, NumericClass) THEN Nil
    ELSE Errorf("field Max fails validation", <<>>, Nil)

validatePerfDataMaxField(input0) ==
    LET input == TrimSpace(input0) IN
    IF input = <<>> THEN Nil
    ELSE IF ContainsAny(input, NumericClass) THEN Nil
    ELSE Errorf("field Max fails validation: %w", <<>>,
                ErrInvalidPerformanceDataFormat)

\* ------------------------------------------------------------ field parsers

\* the (string, error) result of the parsePerfData*Field functions
FieldResult(val, err) == [val |-> val, err |-> err]

parsePerfDataWarnField(input0) ==
    LET input == TrimSpace(input0)
        err == validatePerfDataWarnField(input)
    IN  IF err # Nil THEN FieldResult(<<>>, err) ELSE FieldResult(input, Nil)

parsePerfDataCritField(input0) ==
    LET input == TrimSpace(input0)
        err == validatePerfDataCritField(input)
    IN  IF err # Nil THEN FieldResult(<<>>, err) ELSE FieldResult(input, Nil)

parsePerfDataMinField(input0) ==
    LET input == TrimSpace(input0)
        err == validatePerfDataMinField(input)
    IN  IF err # Nil THEN FieldResult(<<>>, err) ELSE FieldResult(input, Nil)

parsePerfDataMaxField(input0) ==
    LET input == TrimSpace(input0)
        err == validatePerfDataMaxField(input)
    IN  IF err # Nil THEN FieldResult(<<>>, err) ELSE FieldResult(input, Nil)

\* ------------------------------------------------------------ extraction

\* the (string, string, error) result of the two extract functions
PairResult(first, second, err) == [first |-> first, second |-> second, err |-> err]

extractLabelAndRawValue(input) ==
    IF input = <<>>
    THEN PairResult(<<>>, <<>>,
            Errorf("func extractLabelAndRawValue: empty input provided: %w", <<>>,
                   ErrInvalidPerformanceDataFormat))
    ELSE LET labelAndRawValue == SplitN2(input, "=") IN
    IF Len(labelAndRawValue) # 2
    THEN PairResult(<<>>, <<>>,
            Errorf("failed to obtain metric label and raw value from field %q: %w",
                   <<Quote(input)>>, ErrInvalidPerformanceDataFormat))
    ELSE LET label == TrimSpace(Trim(labelAndRawValue[1], {"'"}))
             lerr == validatePerfDataLabelField(label)
         IN
    IF lerr # Nil
    THEN PairResult(<<>>, <<>>,
            Errorf("failed to extract Label field from input string %q: %w",
                   <<Quote(input)>>, lerr))
    ELSE LET rawValue == TrimSpace(labelAndRawValue[2]) IN
    IF rawValue = <<>>
    THEN PairResult(<<>>, <<>>,
            Errorf("metric value is not present in input string %q: %w",
                   <<Quote(input)>>, ErrInvalidPerformanceDataFormat))
    ELSE PairResult(label, rawValue, Nil)

\* re.SubexpIndex finds both named groups of the pattern: Value is group 1 and
\* UoM group 2, so neither "index < 0" branch is taken.
extractValueAndUoM(input) ==
    IF input = <<>>
    THEN PairResult(<<>>, <<>>,
            Errorf("func extractValueAndUoM: empty input provided: %w", <<>>,
                   ErrInvalidPerformanceDataFormat))
    ELSE IF input = <<"U">> THEN PairResult(input, <<>>, Nil)
    ELSE LET matches == FindValueAndUoMSubmatch(input) IN
    IF Len(matches) = 0
    THEN PairResult(<<>>, <<>>,
            Errorf("failed to extract Value and UoM fields from input string %q: %w",
                   <<Quote(input)>>, ErrInvalidPerformanceDataFormat))
    ELSE LET value == matches[2]
             verr == validatePerfDataValueField(value)
         IN
    IF verr # Nil
    THEN PairResult(<<>>, <<>>,
            Errorf("failed to extract Value field from input string %q: %w",
                   <<Quote(input)>>, verr))
    ELSE LET uom == matches[3]
             uerr == validatePerfDataUoMField(uom)
         IN
    IF uerr # Nil
    THEN PairResult(<<>>, <<>>,
            Errorf("failed to extract UnitOfMeasurement field from input string %q: %w",
                   <<Quote(input)>>, uerr))
    ELSE PairResult(value, uom, Nil)

\* mutant: the length tests off by one (> for >=)
extractRawWarnCritMinMaxOffByOne(perfdataFields) ==
    << IF Len(perfdataFields) > 2 THEN perfdataFields[2] ELSE <<>>,
       IF Len(perfdataFields) > 3 THEN perfdataFields[3] ELSE <<>>,
       IF Len(perfdataFields) > 4 THEN perfdataFields[4] ELSE <<>>,
       IF Len(perfdataFields) > 5 THEN perfdataFields[5] ELSE <<>> >>

\* <<warn, crit, min, max>>
extractRawWarnCritMinMaxRawFieldVals(perfdataFields) ==
    << IF Len(perfdataFields) >= 2 THEN perfdataFields[2] ELSE <<>>,
       IF Len(perfdataFields) >= 3 THEN perfdataFields[3] ELSE <<>>,
       IF Len(perfdataFields) >= 4 THEN perfdataFields[4] ELSE <<>>,
       IF Len(perfdataFields) >= 5 THEN perfdataFields[5] ELSE <<>> >>

\* ------------------------------------------------------------ one metric

\* the (PerformanceData, error) result of parsePerfData
MetricResult(pd, err) == [pd |-> pd, err |-> err]

parsePerfData(perfdataString) ==
    LET perfdataFields == Split(perfdataString, ";")
        numFields == Len(perfdataFields)
    IN
    IF numFields < perfDataMinSemicolonSeparatedFields
    THEN MetricResult(ZeroPerformanceData,
            Errorf("input appears to be empty; after processing %d fields found; expected minimum of %d: %w",
                   <<Itoa(numFields), Itoa(perfDataMinSemicolonSeparatedFields)>>,
                   ErrInvalidPerformanceDataFormat))
    ELSE IF numFields > perfDataMaxSemicolonSeparatedFields
    THEN MetricResult(ZeroPerformanceData,
            Errorf("input contains %d semicolon separated fields; expected no more than %d: %w",
                   <<Itoa(numFields), Itoa(perfDataMaxSemicolonSeparatedFields)>>,
                   ErrInvalidPerformanceDataFormat))
    ELSE LET lv == extractLabelAndRawValue(perfdataFields[1]) IN
    IF lv.err # Nil
    THEN MetricResult(ZeroPerformanceData,
            Errorf("failed to extract label and raw value: %w", <<>>, lv.err))
    ELSE LET vu == extractValueAndUoM(lv.second) IN
    IF vu.err # Nil
    THEN MetricResult(ZeroPerformanceData,
            Errorf("failed to extract value and uom: %w", <<>>, vu.err))
    ELSE LET raw == extractRawWarnCritMinMaxRawFieldVals(perfdataFields)
             warn == parsePerfDataWarnField(raw[1])
         IN
    IF warn.err # Nil
    THEN MetricResult(ZeroPerformanceData,
            Errorf("failed to parse warn field: %w", <<>>, warn.err))
    ELSE LET crit == parsePerfDataCritField(raw[2]) IN
    IF crit.err # Nil
    THEN MetricResult(ZeroPerformanceData,
            Errorf("failed to parse crit field: %w", <<>>, crit.err))
    ELSE LET min == parsePerfDataMinField(raw[3]) IN
    IF min.err # Nil
    THEN MetricResult(ZeroPerformanceData,
            Errorf("failed to parse min field: %w", <<>>, min.err))
    ELSE LET max == parsePerfDataMaxField(raw[4]) IN
    IF max.err # Nil
    THEN MetricResult(ZeroPerformanceData,
            Errorf("failed to parse max field: %w", <<>>, max.err))
    ELSE MetricResult(
            PerformanceData(lv.first, vu.first, vu.second,
                            warn.val, crit.val, min.val, max.val),
            Nil)

\* ------------------------------------------------------------ the batch

\* the ([]PerformanceData, error) result of ParsePerfData
BatchResult(results, err) == [results |-> results, err |-> err]

RECURSIVE ParseLoopPrepend(_, _, _)
\* mutant: the loop puts each record before the ones collected so far
ParseLoopPrepend(perfdataStrings, i, results) ==
    IF i > Len(perfdataStrings) THEN BatchResult(results, Nil)
    ELSE LET r == parsePerfData(perfdataStrings[i]) IN
         IF r.err # Nil THEN BatchResult(<<>>, r.err)
         ELSE ParseLoopPrepend(perfdataStrings, i + 1, <<r.pd>> \o results)

RECURSIVE ParseLoopKeepPartial(_, _, _)
\* mutant: on a failure the loop returns the records collected so far
ParseLoopKeepPartial(perfdataStrings, i, results) ==
    IF i > Len(perfdataStrings) THEN BatchResult(results, Nil)
    ELSE LET r == parsePerfData(perfdataStrings[i]) IN
         IF r.err # Nil THEN BatchResult(results, r.err)
         ELSE ParseLoopKeepPartial(perfdataStrings, i + 1, Append(results, r.pd))

RECURSIVE ParseLoop(_, _, _)
\* the loop over perfdataStrings, from index i with results collected so far
ParseLoop(perfdataStrings, i, results) ==
    IF i > Len(perfdataStrings) THEN BatchResult(results, Nil)
    ELSE LET r == parsePerfData(perfdataStrings[i]) IN
         IF r.err # Nil THEN BatchResult(<<>>, r.err)
         ELSE ParseLoop(perfdataStrings, i + 1, Append(results, r.pd))

ParsePerfData(rawPerfdata) ==
    IF TrimSpace(rawPerfdata) = <<>>
    THEN BatchResult(<<>>,
            Errorf("missing input performance data string: %w", <<>>,
                   ErrInvalidPerformanceDataFormat))
    ELSE ParseLoop(Fields(Trim(rawPerfdata, {"\""})), 1, <<>>)

\* ------------------------------------------------------------ record methods

\* mutant: the Value case before the Label case
ValidateValueFirst(pd) ==
    IF pd.Value = <<>> THEN ErrPerformanceDataMissingValue
    ELSE IF pd.Label = <<>> THEN ErrPerformanceDataMissingLabel
    ELSE Nil

Validate(pd) ==
    IF pd.Label = <<>> THEN ErrPerformanceDataMissingLabel
    ELSE IF pd.Value = <<>> THEN ErrPerformanceDataMissingValue
    ELSE Nil

\* mutant: Min and Max in each other's place
StringSwapMinMax(pd) ==
    <<" ", "'">> \o pd.Label \o <<"'", "=">> \o pd.Value \o pd.UnitOfMeasurement
    \o <<";">> \o pd.Warn \o <<";">> \o pd.Crit
    \o <<";">> \o pd.Max \o <<";">> \o pd.Min

\* mutant: no semicolon before an empty Max
StringDropEmptyMax(pd) ==
    <<" ", "'">> \o pd.Label \o <<"'", "=">> \o pd.Value \o pd.UnitOfMeasurement
    \o <<";">> \o pd.Warn \o <<";">> \o pd.Crit
    \o <<";">> \o pd.Min \o (IF pd.Max = <<>> THEN <<>> ELSE <<";">> \o pd.Max)

\* fmt.Sprintf(" '%s'=%s%s;%s;%s;%s;%s", ...)
String(pd) ==
    <<" ", "'">> \o pd.Label \o <<"'", "=">> \o pd.Value \o pd.UnitOfMeasurement
    \o <<";">> \o pd.Warn \o <<";">> \o pd.Crit
    \o <<";">> \o pd.Min \o <<";">> \o pd.Max

\* ------------------------------------------------------------ inputs

\* most metric tokens in a generated batch
MaxTokens == 3

\* most semicolons in a generated metric token
MaxSemicolons == 5

RECURSIVE Flatten(_)
\* the concatenation of a sequence of strings
Flatten(ss) == IF ss = <<>> THEN <<>> ELSE Head(ss) \o Flatten(Tail(ss))

RECURSIVE Join(_, _)
\* the strings of ss with sep between each two
Join(ss, sep) ==
    IF ss = <<>> THEN <<>>
    ELSE IF Len(ss) = 1 THEN ss[1]
    ELSE ss[1] \o sep \o Join(Tail(ss), sep)

SeqsUpTo(S, n) == UNION {[1..k -> S] : k \in 0..n}

\* what stands before the '=' of a generated metric
LabelParts ==
    { <<>>, <<"m">>, <<"'", "m", "'">>, <<"'", "m">>, <<"m", "'", "m">>,
      <<"\"", "m">> }

\* what stands after the '=' of a generated metric
ValueParts ==
    { <<>>, <<"1">>, <<"U">>, <<"1", "m">>, <<"1", "m", "2">>, <<"m", "1">>,
      <<"m">>, <<"-">>, <<"1", "\"">>, <<"U", "1">>, <<"=", "1">> }

\* a field after a semicolon
FieldParts == { <<>>, <<"1">>, <<"~">>, <<"-">>, <<"1", "\"">> }

\* first fields, with and without '='
FirstFields ==
    {l \o <<"=">> \o v : l \in LabelParts, v \in ValueParts} \cup LabelParts

SomeTails ==
    { <<>>, <<";">>, <<";", "1", ";", "~", ";", "-", ";", "1">>,
      <<";", ";", ";", ";", ";">> }

\* every first field with a few tails
FirstFieldTokens == {f \o t : f \in FirstFields, t \in SomeTails}

\* one first field with every tail of at most MaxSemicolons fields
TailTokens ==
    { <<"m", "=", "1", "m">> \o Flatten([i \in DOMAIN t |-> <<";">> \o t[i]])
        : t \in SeqsUpTo(FieldParts, MaxSemicolons) }

\* the metrics batches are made of
BatchTokens ==
    { <<"m", "=", "1">>,
      <<"n", "=", "2", ";", "1">>,
      <<"'", "k", "'", "=", "U", ";", ";", ";", ";">>,
      <<"m", "=", "1", "m", ";", "1", ";", "1", ";", "1", ";", "1", "\"">>,
      <<"m", "=", "1", ";", "-">>,
      <<"n", "=">>,
      <<"m">> }

Separators == { <<" ">>, <<" ", "\t">> }

Wrappers == { <<>>, <<"\"">>, <<" ">> }

Batches ==
    { pre \o Join(ts, sep) \o post :
        ts \in SeqsUpTo(BatchTokens, MaxTokens), sep \in Separators,
        pre \in Wrappers, post \in Wrappers }

\* "load1=0.26;5;10;0; load5=0.32;4;6;0; load15=0.30;3;4;0;"
LoadInput ==
    << "l", "o", "a", "d", "1", "=", "0", ".", "2", "6", ";", "5", ";", "1", "0", ";", "0", ";", " ",
       "l", "o", "a", "d", "5", "=", "0", ".", "3", "2", ";", "4", ";", "6", ";", "0", ";", " ",
       "l", "o", "a", "d", "1", "5", "=", "0", ".", "3", "0", ";", "3", ";", "4", ";", "0", ";" >>

\* "'response time'=120ms;200;500;;"
ResponseTimeInput ==
    << "'", "r", "e", "s", "p", "o", "n", "s", "e", " ", "t", "i", "m", "e", "'", "=",
       "1", "2", "0", "m", "s", ";", "2", "0", "0", ";", "5", "0", "0", ";", ";" >>

\* "users=U"
UsersInput == << "u", "s", "e", "r", "s", "=", "U" >>

Examples == { LoadInput, ResponseTimeInput, UsersInput }

Inputs == FirstFieldTokens \cup TailTokens \cup Batches \cup Examples

\* field values of records a caller builds itself, validated or not
RecordFieldValues == { <<>>, <<"m">>, <<";", "'">> }

Records ==
    [Label : RecordFieldValues, Value : RecordFieldValues,
     UnitOfMeasurement : RecordFieldValues, Warn : RecordFieldValues,
     Crit : RecordFieldValues, Min : RecordFieldValues, Max : RecordFieldValues]

\* ------------------------------------------------------------ the caller

VARIABLES
    rawPerfdata,    \* the string given to ParsePerfData
    phase,          \* what the caller did last
    out,            \* ParsePerfData(rawPerfdata)
    pd,             \* the record the caller holds
    rendered,       \* pd.String()
    verr,           \* pd.Validate()
    out2,           \* ParsePerfData(rendered)
    probe           \* parsePerfData of one token, as is and with ';' appended

vars == <<rawPerfdata, phase, out, pd, rendered, verr, out2, probe>>

NoProbe ==
    [token |-> <<>>, plain |-> MetricResult(ZeroPerformanceData, Nil),
     semi |-> MetricResult(ZeroPerformanceData, Nil)]

Init ==
    /\ out = BatchResult(<<>>, Nil)
    /\ out2 = BatchResult(<<>>, Nil)
    /\ rendered = <<>>
    /\ verr = Nil
    /\ probe = NoProbe
    /\ \/ /\ phase = "input"
          /\ rawPerfdata \in Inputs
          /\ pd = ZeroPerformanceData
       \/ /\ phase = "record"
          /\ rawPerfdata = <<>>
          /\ pd \in Records

\* results, err := ParsePerfData(rawPerfdata)
Parse ==
    /\ phase = "input"
    /\ out' = ParsePerfData(rawPerfdata)
    /\ phase' = "parsed"
    /\ UNCHANGED <<rawPerfdata, pd, rendered, verr, out2, probe>>

\* pd := results[i]
Pick ==
    /\ phase = "parsed"
    /\ out.err = Nil
    /\ \E i \in DOMAIN out.results : pd' = out.results[i]
    /\ phase' = "record"
    /\ UNCHANGED <<rawPerfdata, out, rendered, verr, out2, probe>>

\* rendered := pd.String(); the value receiver leaves pd as it is
Render ==
    /\ phase = "record"
    /\ rendered' = String(pd)
    /\ phase' = "rendered"
    /\ UNCHANGED <<rawPerfdata, out, pd, verr, out2, probe>>

\* ParsePerfData(rendered)
Reparse ==
    /\ phase = "rendered"
    /\ out2' = ParsePerfData(rendered)
    /\ phase' = "reparsed"
    /\ UNCHANGED <<rawPerfdata, out, pd, rendered, verr, probe>>

\* verr := pd.Validate(), a first or a further time
ValidateRecord ==
    /\ phase \in {"record", "validated"}
    /\ verr' = Validate(pd)
    /\ phase' = "validated"
    /\ UNCHANGED <<rawPerfdata, out, pd, rendered, out2, probe>>

\* parsePerfData on one metric of the input, and on it with ';' appended
ProbeMetric ==
    /\ phase = "input"
    /\ \E t \in {Fields(Trim(rawPerfdata, {"\""}))[i] :
                    i \in DOMAIN Fields(Trim(rawPerfdata, {"\""}))} :
          probe' = [token |-> t, plain |-> parsePerfData(t),
                    semi |-> parsePerfData(t \o <<";">>)]
    /\ phase' = "probed"
    /\ UNCHANGED <<rawPerfdata, out, pd, rendered, verr, out2>>

Next == Parse \/ Pick \/ Render \/ Reparse \/ ValidateRecord \/ ProbeMetric

Spec == Init /\ [][Next]_vars

\* ------------------------------------------------------------ what the claims speak of

\* where the whitespace-delimited tokens of s start
TokenStarts(s) ==
    {i \in DOMAIN s : s[i] \notin WhiteSpace /\ (i = 1 \/ s[i - 1] \in WhiteSpace)}

\* the token of s that starts at i
TokenFrom(s, i) ==
    LET last == CHOOSE j \in i..Len(s) :
                    /\ \A k \in i..j : s[k] \notin WhiteSpace
                    /\ (j = Len(s) \/ s[j + 1] \in WhiteSpace)
    IN  SubSeq(s, i, last)

\* the metric tokens of an input, in input order, outer double quotes stripped
MetricTokens(raw) ==
    LET s == Trim(raw, {"\""})
        starts == TokenStarts(s)
    IN  [n \in 1..Cardinality(starts) |->
            TokenFrom(s, CHOOSE i \in starts :
                            Cardinality({j \in starts : j < i}) = n - 1)]

\* the number of semicolons of a token
SemicolonCount(t) == Cardinality({i \in DOMAIN t : t[i] = ";"})

\* the part of a token before its first semicolon
FirstFieldOf(t) ==
    IF \E i \in DOMAIN t : t[i] = ";"
    THEN SubSeq(t, 1, (CHOOSE i \in DOMAIN t :
                          t[i] = ";" /\ \A k \in 1..(i - 1) : t[k] # ";") - 1)
    ELSE t

\* the part of a first field after its first '=', given that it has one
ValuePortionOf(f) ==
    SubSeq(f, (CHOOSE i \in DOMAIN f :
                  f[i] = "=" /\ \A k \in 1..(i - 1) : f[k] # "=") + 1, Len(f))

HasEquals(f) == \E i \in DOMAIN f : f[i] = "="

\* the indices of the metric tokens that parsePerfData rejects
Failing(toks) == {i \in DOMAIN toks : parsePerfData(toks[i]).err # Nil}

EndsWithDoubleQuote(s) == s # <<>> /\ s[Len(s)] = "\""

\* the input holds one metric, and that metric has all five fields
SingleFiveFieldMetric(raw) ==
    /\ Len(MetricTokens(raw)) = 1
    /\ SemicolonCount(MetricTokens(raw)[1]) = 4

\* s stands in r right after the first off characters
At(r, off, s) == SubSeq(r, off + 1, off + Len(s)) = s

\* ------------------------------------------------------------ C1

\* C1: when ParsePerfData succeeds, its result has one record per
\* whitespace-delimited metric token of the input (outer double quotes
\* stripped), and the i-th record is the one parsed from the i-th token.
C1_OneRecordPerToken ==
    (phase = "parsed" /\ out.err = Nil) =>
        LET toks == MetricTokens(rawPerfdata) IN
        /\ Len(out.results) = Len(toks)
        /\ \A i \in DOMAIN toks :
              parsePerfData(toks[i]) = MetricResult(out.results[i], Nil)

C1_Witness ==
    /\ phase = "parsed"
    /\ out.err = Nil
    /\ Len(out.results) >= 2
    /\ out.results[1] # out.results[2]

\* ------------------------------------------------------------ C2

\* C2: if any metric token of a batch fails to parse, ParsePerfData returns
\* no records and the error of the first failing token in input order.
C2_FirstFailureAborts ==
    LET toks == MetricTokens(rawPerfdata) IN
    (phase = "parsed" /\ Failing(toks) # {}) =>
        LET first == CHOOSE i \in Failing(toks) : \A j \in Failing(toks) : i <= j
        IN  /\ out.results = <<>>
            /\ out.err = parsePerfData(toks[first]).err

C2_Witness ==
    LET toks == MetricTokens(rawPerfdata) IN
    /\ phase = "parsed"
    /\ Len(toks) = 3
    /\ Failing(toks) = {2, 3}
    /\ parsePerfData(toks[2]).err # parsePerfData(toks[3]).err
    /\ out.results = <<>>
    /\ out.err = parsePerfData(toks[2]).err

\* ------------------------------------------------------------ C3

\* C3: every error of ParsePerfData wraps ErrInvalidPerformanceDataFormat,
\* and ParsePerfData fails for an empty or whitespace-only input, for a
\* token with more than 5 semicolon-separated fields, for a token whose
\* first field has no '=', and for a token whose value portion after '='
\* is empty.
C3_ErrorsWrapRoot ==
    phase = "parsed" =>
        LET toks == MetricTokens(rawPerfdata) IN
        /\ out.err # Nil => Is(out.err, ErrInvalidPerformanceDataFormat)
        /\ (\A i \in DOMAIN rawPerfdata : rawPerfdata[i] \in WhiteSpace)
              => out.err # Nil
        /\ (\E i \in DOMAIN toks : SemicolonCount(toks[i]) + 1 > 5)
              => out.err # Nil
        /\ (\E i \in DOMAIN toks : ~HasEquals(FirstFieldOf(toks[i])))
              => out.err # Nil
        /\ (\E i \in DOMAIN toks :
                /\ HasEquals(FirstFieldOf(toks[i]))
                /\ ValuePortionOf(FirstFieldOf(toks[i])) = <<>>)
              => out.err # Nil

C3_Witness ==
    /\ phase = "parsed"
    /\ Len(MetricTokens(rawPerfdata)) = 1
    /\ SemicolonCount(MetricTokens(rawPerfdata)[1]) = 4
    /\ out.err # Nil
    /\ out.err[1][1] = "failed to parse max field: %w"
    /\ Is(out.err, ErrInvalidPerformanceDataFormat)

\* ------------------------------------------------------------ C4

\* C4: every record of a successful ParsePerfData has a non-empty Label
\* without '=' and single quote, a non-empty Value that is "U" or made of
\* '-', digits and '.', and a UnitOfMeasurement without digit, ';', single
\* and double quote; Validate() returns no error on it.
C4_ParsedRecordsWellFormed ==
    /\ (phase = "parsed" /\ out.err = Nil) =>
          \A i \in DOMAIN out.results :
              LET r == out.results[i] IN
              /\ r.Label # <<>>
              /\ \A k \in DOMAIN r.Label : r.Label[k] \notin {"=", "'"}
              /\ r.Value # <<>>
              /\ \/ r.Value = <<"U">>
                 \/ \A k \in DOMAIN r.Value :
                        r.Value[k] \in Digits \cup {"-", "."}
              /\ \A k \in DOMAIN r.UnitOfMeasurement :
                    r.UnitOfMeasurement[k] \notin Digits \cup {";", "'", "\""}
    /\ (phase = "validated" /\ out.results # <<>>) => verr = Nil

C4_Witness ==
    /\ phase = "validated"
    /\ out.results # <<>>
    /\ pd.UnitOfMeasurement # <<>>
    /\ pd.Value # <<"U">>
    /\ verr = Nil

\* ------------------------------------------------------------ C5

\* C5 as claimed: a record parsed from an input holding a single metric with
\* all five fields, rendered with String() and parsed again, comes back as
\* exactly that one record.
C5_RoundTrip_AsClaimed ==
    (phase = "reparsed" /\ out.err = Nil /\ SingleFiveFieldMetric(rawPerfdata)) =>
        out2 = BatchResult(<<pd>>, Nil)

\* C5 amended: the round trip holds for every such record whose Max does
\* not end with a double quote (the second ParsePerfData strips a double
\* quote that ends the rendered text).
C5_RoundTrip ==
    (/\ phase = "reparsed"
     /\ out.err = Nil
     /\ SingleFiveFieldMetric(rawPerfdata)
     /\ ~EndsWithDoubleQuote(pd.Max)) =>
        out2 = BatchResult(<<pd>>, Nil)

C5_Witness ==
    /\ phase = "reparsed"
    /\ out.err = Nil
    /\ SingleFiveFieldMetric(rawPerfdata)
    /\ pd.UnitOfMeasurement # <<>>
    /\ pd.Warn # <<>> /\ pd.Crit # <<>> /\ pd.Min # <<>> /\ pd.Max # <<>>
    /\ pd.Warn # pd.Crit /\ pd.Min # pd.Max
    /\ out2 = BatchResult(<<pd>>, Nil)

\* ------------------------------------------------------------ C6

\* C6: the input 'response time'=120ms;200;500;; is parsed as one metric
\* with Label "response time", Value "120", UnitOfMeasurement "ms", Warn
\* "200", Crit "500" and empty Min and Max.
C6_QuotedLabelWithSpace ==
    (phase = "parsed" /\ rawPerfdata = ResponseTimeInput) =>
        out = BatchResult(
                << PerformanceData(
                     <<"r", "e", "s", "p", "o", "n", "s", "e", " ", "t", "i", "m", "e">>,
                     <<"1", "2", "0">>, <<"m", "s">>,
                     <<"2", "0", "0">>, <<"5", "0", "0">>, <<>>, <<>>) >>,
                Nil)

\* ------------------------------------------------------------ C7

\* a value portion such as 12ms3: a number, unit characters, then a digit
DigitAfterUnit(v) ==
    /\ v # <<>>
    /\ v[1] \in NumericClass
    /\ LET e == RunEnd(v, 1, NumericClass) IN
       /\ e <= Len(v)
       /\ v[e] \notin {";", "'", "\""}
       /\ \E k \in (e + 1)..Len(v) : v[k] \in Digits

\* C7: a metric whose unit-of-measurement suffix contains a digit is
\* rejected by ParsePerfData with an error wrapping
\* ErrInvalidPerformanceDataFormat.
C7_DigitInUoMRejected ==
    LET toks == MetricTokens(rawPerfdata) IN
    (/\ phase = "parsed"
     /\ \E i \in DOMAIN toks :
           /\ HasEquals(FirstFieldOf(toks[i]))
           /\ DigitAfterUnit(ValuePortionOf(FirstFieldOf(toks[i])))) =>
        /\ out.err # Nil
        /\ Is(out.err, ErrInvalidPerformanceDataFormat)

\* ------------------------------------------------------------ C8

\* C8: a metric token with at most four semicolon-separated fields and the
\* same token with one ';' appended are both rejected or both accepted with
\* identical records, and the fields absent from the token are empty.
C8_TrailingSemicolon ==
    (phase = "probed" /\ SemicolonCount(probe.token) + 1 <= 4) =>
        /\ (probe.plain.err = Nil) <=> (probe.semi.err = Nil)
        /\ probe.plain.pd = probe.semi.pd
        /\ probe.plain.err = Nil =>
              /\ SemicolonCount(probe.token) < 1 => probe.plain.pd.Warn = <<>>
              /\ SemicolonCount(probe.token) < 2 => probe.plain.pd.Crit = <<>>
              /\ SemicolonCount(probe.token) < 3 => probe.plain.pd.Min = <<>>
              /\ probe.plain.pd.Max = <<>>

C8_Witness ==
    /\ phase = "probed"
    /\ SemicolonCount(probe.token) = 3
    /\ probe.token[Len(probe.token)] # ";"
    /\ probe.plain.err = Nil
    /\ probe.plain.pd.Min # <<>>
    /\ probe.semi = probe.plain

\* ------------------------------------------------------------ C9

\* C9: String() of any record is a space, a single quote, Label, a single
\* quote, '=', Value, UnitOfMeasurement, then ';' Warn ';' Crit ';' Min ';'
\* Max, the four semicolons also with empty fields; it leaves the record
\* unchanged.
C9_StringFormat ==
    [][phase' = "rendered" =>
        LET l == Len(pd.Label)
            v == l + Len(pd.Value)
            u == v + Len(pd.UnitOfMeasurement)
            w == u + Len(pd.Warn)
            c == w + Len(pd.Crit)
            m == c + Len(pd.Min)
        IN  /\ pd' = pd
            /\ Len(rendered') = m + Len(pd.Max) + 8
            /\ At(rendered', 0, <<" ", "'">>)
            /\ At(rendered', 2, pd.Label)
            /\ At(rendered', l + 2, <<"'", "=">>)
            /\ At(rendered', l + 4, pd.Value)
            /\ At(rendered', v + 4, pd.UnitOfMeasurement)
            /\ At(rendered', u + 4, <<";">>)
            /\ At(rendered', u + 5, pd.Warn)
            /\ At(rendered', w + 5, <<";">>)
            /\ At(rendered', w + 6, pd.Crit)
            /\ At(rendered', c + 6, <<";">>)
            /\ At(rendered', c + 7, pd.Min)
            /\ At(rendered', m + 7, <<";">>)
            /\ At(rendered', m + 8, pd.Max)
    ]_vars

C9_Witness ==
    /\ phase = "rendered"
    /\ Validate(pd) # Nil
    /\ pd.Warn = <<>> /\ pd.Crit = <<>> /\ pd.Min = <<>> /\ pd.Max = <<>>
    /\ ContainsAny(pd.UnitOfMeasurement, {";"})
    /\ rendered[Len(rendered)] = ";"

\* ------------------------------------------------------------ C10

\* C10: Validate() returns the missing-Label error when Label is empty, the
\* missing-Value error when Label is non-empty and Value is empty, and no
\* error otherwise; it leaves the record unchanged and a second call gives
\* the result of the first.
C10_Validate ==
    [][phase' = "validated" =>
        /\ pd' = pd
        /\ pd.Label = <<>> => verr' = ErrPerformanceDataMissingLabel
        /\ (pd.Label # <<>> /\ pd.Value = <<>>) =>
              verr' = ErrPerformanceDataMissingValue
        /\ (pd.Label # <<>> /\ pd.Value # <<>>) => verr' = Nil
        /\ phase = "validated" => verr' = verr
    ]_vars

C10_Witness ==
    /\ phase = "validated"
    /\ pd.Label = <<>>
    /\ pd.Value = <<>>
    /\ pd.Max # <<>>
    /\ verr = ErrPerformanceDataMissingLabel

\* ------------------------------------------------------------ C11

\* C11: a value portion that is exactly "U" gives Value "U" and an empty
\* UnitOfMeasurement; for every other accepted metric Value is the run of
\* [-0-9.] characters at the very start of the value portion and
\* UnitOfMeasurement everything after it, so that Value followed by
\* UnitOfMeasurement is the whole value portion; a value portion that does
\* not start with a [-0-9.] character is rejected.
C11_ValueUoMSplit ==
    (phase = "probed" /\ HasEquals(FirstFieldOf(probe.token))) =>
        LET v == ValuePortionOf(FirstFieldOf(probe.token))
            r == probe.plain.pd
            accepted == probe.plain.err = Nil
        IN  /\ (accepted /\ v = <<"U">>) =>
                  (r.Value = <<"U">> /\ r.UnitOfMeasurement = <<>>)
            /\ (accepted /\ v # <<"U">>) =>
                  /\ r.Value # <<>>
                  /\ r.Value = SubSeq(v, 1, Len(r.Value))
                  /\ \A k \in DOMAIN r.Value : r.Value[k] \in Digits \cup {"-", "."}
                  /\ (Len(r.Value) < Len(v) =>
                        v[Len(r.Value) + 1] \notin Digits \cup {"-", "."})
                  /\ r.Value \o r.UnitOfMeasurement = v
            /\ (v # <<>> /\ v # <<"U">> /\ v[1] \notin Digits \cup {"-", "."}) =>
                  ~accepted

\* ------------------------------------------------------------ C12

\* the k-th semicolon-separated field of a token, empty when the token has
\* fewer fields
FieldAt(t, k) ==
    LET semis == {i \in DOMAIN t : t[i] = ";"}
        cuts == semis \cup {0, Len(t) + 1}
        cut(n) == CHOOSE i \in cuts : Cardinality({j \in cuts : j < i}) = n
    IN  IF k > Cardinality(semis) + 1 THEN <<>>
        ELSE SubSeq(t, cut(k - 1) + 1, cut(k) - 1)

\* a field that holds something, and nothing of the class
LacksClass(f, class) == f # <<>> /\ \A i \in DOMAIN f : f[i] \notin class

\* the stage a metric was rejected at: the format of its outermost error
RejectedAt(r, stage) == r.err # Nil /\ r.err[1][1] = stage

C13_AtLeastOneRecord ==
    phase = "parsed" =>
        /\ out.err = Nil => Len(out.results) >= 1
        /\ MetricTokens(rawPerfdata) = <<>> =>
              Is(out.err, ErrInvalidPerformanceDataFormat)

====
